---- MODULE Spec2Model ----
(***************************************************************************)
(* A model of the refugees_did analysis pipeline (src/src/refugees_did):   *)
(* panel preparation (design.py), the threshold models (models.py) and the *)
(* table builders (plots.py).                                              *)
(*                                                                         *)
(* A DataFrame is a record [columns, rows]: the set of its column names    *)
(* and the sequence of its rows, each row a function from the column names *)
(* to cells.  A cell is a sequence: <<>> is NaN (a missing value), <<v>> a *)
(* value, <<n, d>> the float n / d.  Intensities are differences of        *)
(* integer counts, so a median is a half-integer and is kept doubled.      *)
(***************************************************************************)
EXTENDS Integers, Sequences, FiniteSets, TLC

VARIABLES pc, panel, df, event_model, args, ret

vars == <<pc, panel, df, event_model, args, ret>>

(* ------------------------------ bounds --------------------------------- *)

MaxRows == 4

\* The foreigners_total values of the loaded rows.
ForeignersTotals == {0, 1}

Regions == {"A", "B"}

(* ------------------------- program constants --------------------------- *)

\* design.py:55,58,67 and models.py:276 hard-code the year 2016.
PostYear == 2016

Years == {PostYear - 1, PostYear, PostYear + 1}

\* The thresholds tried on the 2016 intensities.
Thresholds == {-1, 0, 1}

\* np.float64(nan).astype(int): the most negative integer on x86-64 (it
\* stands here for -2^63), 0 on other targets.
MinInt == -2147483647

NaNCastOutcomes == {MinInt, 0}

(* ------------------------------- cells --------------------------------- *)

NaN == <<>>

Cell(v) == <<v>>

IsNaN(c) == c = NaN

V(c) == c[1]

(* ----------------------------- DataFrame ------------------------------- *)

EmptyFrame(cols) == [columns |-> cols, rows |-> <<>>]

NRows(frame) == Len(frame.rows)

Index(frame) == 1..Len(frame.rows)

\* df[c] = vals: the column is added, or overwritten when it is there.
SetColumn(frame, c, vals) ==
    [columns |-> frame.columns \cup {c},
     rows |-> [i \in Index(frame) |->
                 [k \in frame.columns \cup {c} |->
                     IF k = c THEN vals[i] ELSE frame.rows[i][k]]]]

\* df.loc[df['year'] == y]: the positions of the rows of year y.
RowsOfYear(frame, y) ==
    {i \in Index(frame) : ~IsNaN(frame.rows[i]["year"]) /\ V(frame.rows[i]["year"]) = y}

(* ------------------------------- median -------------------------------- *)

\* The values of column c on the rows at positions I, NaN skipped, as a
\* function from the positions that hold a value.
Values(frame, I, c) ==
    [i \in {j \in I : ~IsNaN(frame.rows[j][c])} |-> V(frame.rows[i][c])]

\* The k-th smallest value of vals (a function into the integers), k >= 1.
OrderStatistic(vals, k) ==
    CHOOSE v \in {vals[i] : i \in DOMAIN vals} :
        /\ Cardinality({i \in DOMAIN vals : vals[i] < v}) < k
        /\ Cardinality({i \in DOMAIN vals : vals[i] <= v}) >= k

\* Twice Series.median() of a non-empty vals: the middle value, or the mean
\* of the two middle values.
Median2Mutant(vals) ==
    2 * OrderStatistic(vals, (Cardinality(DOMAIN vals) + 1) \div 2)

Median2(vals) ==
    LET n == Cardinality(DOMAIN vals)
    IN  OrderStatistic(vals, (n + 1) \div 2) + OrderStatistic(vals, (n \div 2) + 1)

\* float -> int of the half-integer m2 / 2: astype(int) truncates toward 0.
AsTypeInt(m2) == IF m2 >= 0 THEN m2 \div 2 ELSE -((-m2) \div 2)

(* ------------------------ add_treatment_variables ---------------------- *)

\* df.groupby("region")["foreigners_total"].diff(): each row minus the row
\* before it IN THE FRAME among the rows of its region; NaN on the first.
GroupDiffAt(frame, i) ==
    LET prev == {j \in 1..(i - 1) : frame.rows[j]["region"] = frame.rows[i]["region"]}
        p == CHOOSE j \in prev : \A k \in prev : k <= j
        cur == frame.rows[i]["foreigners_total"]
    IN  IF IsNaN(frame.rows[i]["region"]) \/ prev = {} THEN NaN
        ELSE IF IsNaN(cur) \/ IsNaN(frame.rows[p]["foreigners_total"]) THEN NaN
        ELSE Cell(V(cur) - V(frame.rows[p]["foreigners_total"]))

GroupDiff(frame) == [i \in Index(frame) |-> GroupDiffAt(frame, i)]

\* df.loc[df['year'] == 2016, 'treatment_intensity'].median().astype(int).
\* With no row of year 2016 the selection is empty, its median is the
\* Python float nan, which has no astype: AttributeError. With rows of 2016
\* and no intensity among them the median is a NumPy nan, and nanCast is
\* what its cast yields.
Threshold(frame, nanCast) ==
    LET vals == Values(frame, RowsOfYear(frame, PostYear), "treatment_intensity")
    IN  IF RowsOfYear(frame, PostYear) = {} THEN [raised |-> "AttributeError", value |-> <<>>]
        ELSE [raised |-> "none",
              value |-> IF DOMAIN vals = {} THEN nanCast ELSE AsTypeInt(Median2(vals))]

\* intensity > threshold; NaN > t is False.
AboveMutant(c, t) == ~IsNaN(c) /\ V(c) >= t

Above(c, t) == ~IsNaN(c) /\ V(c) > t

\* The regions (cells) that have a row of year 2016.
RegionsOfPostYear(frame) == {frame.rows[j]["region"] : j \in RowsOfYear(frame, PostYear)}

\* The year-2016 row of region r; the frame has one row per (region, year)
\* (with two, Series.map raises on the duplicated index).
PostYearRow(frame, r) ==
    CHOOSE j \in RowsOfYear(frame, PostYear) : frame.rows[j]["region"] = r

\* df.loc[df['year'] == 2016].assign(treated = intensity > threshold)
\*   .set_index('region')['treated']
treated_regions(frame, threshold) ==
    [r \in RegionsOfPostYear(frame) |->
        Above(frame.rows[PostYearRow(frame, r)]["treatment_intensity"], threshold)]

\* df['region'].map(flags).fillna(0).astype(int) at row i: a region that
\* is not in the index maps to NaN, which is filled with 0.
MapFlag(frame, i, flags) ==
    LET r == frame.rows[i]["region"]
    IN  IF r \in DOMAIN flags /\ flags[r] THEN 1 ELSE 0

\* (df['year'] >= 2016).astype(int)
PostMutant(year) == IF ~IsNaN(year) /\ V(year) > PostYear THEN 1 ELSE 0

Post(year) == IF ~IsNaN(year) /\ V(year) >= PostYear THEN 1 ELSE 0

\* The body of add_treatment_variables on its df: the frame as the call
\* leaves it, and the exception it ends with ("none": df is returned).
add_treatment_variables(p, nanCast) ==
    LET d1 == SetColumn(p, "treatment_intensity", GroupDiff(p))
        threshold == Threshold(d1, nanCast)
        flags == treated_regions(d1, threshold.value)
        d2 == SetColumn(d1, "treated", [i \in Index(d1) |-> Cell(MapFlag(d1, i, flags))])
        d3 == SetColumn(d2, "post", [i \in Index(d2) |-> Cell(Post(d2.rows[i]["year"]))])
    IN  IF threshold.raised # "none" THEN [raised |-> threshold.raised, value |-> d1]
        ELSE [raised |-> "none",
              value |-> SetColumn(d3, "did",
                          [i \in Index(d3) |->
                              Cell(V(d3.rows[i]["treated"]) * V(d3.rows[i]["post"]))])]

(* ------------------ copies: the functions on objects ------------------- *)

\* A heap is a sequence of frames and an object its position in it; a call
\* takes the heap and its argument and returns the heap and its result.
\* panel.copy(): a new object with the same columns and rows.
CopyMutant(heap, obj) == [heap |-> heap, obj |-> obj]

Copy(heap, obj) == [heap |-> Append(heap, heap[obj]), obj |-> Len(heap) + 1]

\* total_cases / population_total * 100_000, as the float n / d.
CrimeRate(row) ==
    IF IsNaN(row["total_cases"]) \/ IsNaN(row["population_total"]) THEN NaN
    ELSE <<V(row["total_cases"]) * 100000, V(row["population_total"])>>

add_crime_rate_if_missing(heap, panelObj) ==
    LET c == Copy(heap, panelObj)
        d == c.heap[c.obj]
    IN  IF "crime_rate_per_100k" \notin d.columns
        THEN [heap |-> [c.heap EXCEPT ![c.obj] =
                          SetColumn(d, "crime_rate_per_100k",
                                    [i \in Index(d) |-> CrimeRate(d.rows[i])])],
              obj |-> c.obj]
        ELSE c

\* add_treatment_variables with its df = panel.copy(): the heap after the
\* call, the object returned (0 when the call raises) and the exception.
add_treatment_variables_copy(heap, panelObj, nanCast) ==
    LET c == Copy(heap, panelObj)
        r == add_treatment_variables(c.heap[c.obj], nanCast)
    IN  [heap |-> [c.heap EXCEPT ![c.obj] = r.value],
         obj |-> IF r.raised = "none" THEN c.obj ELSE 0,
         raised |-> r.raised]

\* The exception of add_treatment_variables, its last step, is not caught.
prepare_analysis_panel(heap, panelObj, nanCast) ==
    LET c == Copy(heap, panelObj)
        r == add_crime_rate_if_missing(c.heap, c.obj)
    IN  add_treatment_variables_copy(r.heap, r.obj, nanCast)

(* ------------------------ run_did_with_threshold ----------------------- *)

\* smf.ols(formula, data).fit(cov_type="HC3"): the estimation is the
\* statistics library's; a fitted model is kept as what it was fitted on.
Fit(formula, data) == [formula |-> formula, data |-> data]

\* model.params.get(term, nan) and the like: an estimate is a function of
\* the model, left uninterpreted.
Estimate(model, what, term) == <<what, term, model>>

\* ti_2016 > threshold, ti_2016 the year-2016 intensities indexed by region.
ExceedsMutant(c, t) == ~IsNaN(c) /\ V(c) >= t

Exceeds(c, t) == ~IsNaN(c) /\ V(c) > t

\* (df[df["year"] == 2016].set_index("region")["treatment_intensity"]
\*    > threshold).astype(int)
treated_regions_alt(frame, threshold) ==
    [r \in RegionsOfPostYear(frame) |->
        Exceeds(frame.rows[PostYearRow(frame, r)]["treatment_intensity"], threshold)]

\* The frame the model is fitted on: treated_alt and did_alt added.
with_threshold_frame(p, threshold) ==
    LET flags == treated_regions_alt(p, threshold)
        d1 == SetColumn(p, "treated_alt", [i \in Index(p) |-> Cell(MapFlag(p, i, flags))])
    IN  SetColumn(d1, "did_alt",
            [i \in Index(d1) |-> Cell(V(d1.rows[i]["treated_alt"]) * V(d1.rows[i]["post"]))])

run_did_with_threshold(p, threshold) ==
    Fit("crime_rate_per_100k ~ did_alt + C(region) + C(year)",
        with_threshold_frame(p, threshold))

(* ------------------------------ the pipeline --------------------------- *)

NoFrame == EmptyFrame({})

NoModel == <<>>

NoArgs == [fn |-> "none"]

NoRet == [raised |-> "none", value |-> <<>>]

Returned(v) == [raised |-> "none", value |-> v]

Raised(e) == [raised |-> e, value |-> <<>>]

RawColumns == {"region", "year", "foreigners_total", "crime_rate_per_100k"}

\* The outcome of the loaded rows: a fixed rate, 7 / 1.
LoadedRate == <<7, 1>>

RawRow(r, y, f) ==
    [k \in RawColumns |->
        CASE k = "region" -> Cell(r)
          [] k = "year" -> Cell(y)
          [] k = "foreigners_total" -> Cell(f)
          [] OTHER -> LoadedRate]

HasKey(frame, r, y) ==
    \E i \in Index(frame) : frame.rows[i]["region"] = Cell(r) /\ frame.rows[i]["year"] = Cell(y)

Init ==
    /\ pc = "input"
    /\ panel = EmptyFrame(RawColumns)
    /\ df = NoFrame
    /\ event_model = NoModel
    /\ args = NoArgs
    /\ ret = NoRet

\* One more row of the panel file: one row per (region, year), in any order.
LoadRow(r, y, f) ==
    /\ pc = "input"
    /\ NRows(panel) < MaxRows
    /\ ~HasKey(panel, r, y)
    /\ panel' = [panel EXCEPT !.rows = Append(@, RawRow(r, y, f))]
    /\ UNCHANGED <<pc, df, event_model, args, ret>>

\* The caller's panel is object 1 of the heap of the call; a call that
\* raises returns no frame.
AddTreatmentVariables(nanCast) ==
    /\ pc = "input"
    /\ LET r == add_treatment_variables_copy(<<panel>>, 1, nanCast)
       IN  /\ panel' = r.heap[1]
           /\ IF r.raised = "none"
              THEN df' = r.heap[r.obj] /\ pc' = "prepared" /\ ret' = ret
              ELSE df' = df /\ pc' = "failed" /\ ret' = Raised(r.raised)
    /\ args' = [fn |-> "add_treatment_variables", panel |-> panel]
    /\ UNCHANGED event_model

\* The model is fitted on a panel that has rows: what the estimation does
\* with none is the statistics library's.
RunDidWithThreshold(t) ==
    /\ pc = "prepared"
    /\ NRows(df) > 0
    /\ args' = [fn |-> "run_did_with_threshold", threshold |-> t]
    /\ ret' = Returned(run_did_with_threshold(df, t))
    /\ pc' = "fitted"
    /\ UNCHANGED <<panel, df, event_model>>

Next ==
    \/ \E r \in Regions, y \in Years, f \in ForeignersTotals : LoadRow(r, y, f)
    \/ \E c \in NaNCastOutcomes : AddTreatmentVariables(c)
    \/ \E t \in Thresholds : RunDidWithThreshold(t)

Spec == Init /\ [][Next]_vars

(* --------------------------- the median split -------------------------- *)

MaxSplitRows == 6

\* The regions and years of the panels of the median split: three regions,
\* the year before 2016 and 2016.
SplitRegions == {"A", "B", "C"}

SplitYears == {PostYear - 1, PostYear}

\* One more row of the panel file: one row per (region, year), in any
\* order, foreigners_total an integer.
LoadSplitRow(r, y, f) ==
    /\ pc = "input"
    /\ NRows(panel) < MaxSplitRows
    /\ ~HasKey(panel, r, y)
    /\ panel' = [panel EXCEPT !.rows = Append(@, RawRow(r, y, f))]
    /\ UNCHANGED <<pc, df, event_model, args, ret>>

NextSplit ==
    \/ \E r \in SplitRegions, y \in SplitYears, f \in ForeignersTotals : LoadSplitRow(r, y, f)
    \/ \E c \in NaNCastOutcomes : AddTreatmentVariables(c)

SpecSplit == Init /\ [][NextSplit]_vars

(* ---------------------- build_event_study_table ------------------------ *)

\* models.py:109, the default reference year of fit_event_study.
DefaultRefYear == 2015

DigitChars == <<"0", "1", "2", "3", "4", "5", "6", "7", "8", "9">>

IsDigit(ch) == \E d \in 1..10 : DigitChars[d] = ch

DigitValue(ch) == (CHOOSE d \in 1..10 : DigitChars[d] = ch) - 1

\* str(n) of n >= 0, as a sequence of characters.
RECURSIVE Digits(_)
Digits(n) == IF n < 10 THEN <<DigitChars[n + 1]>>
             ELSE Digits(n \div 10) \o <<DigitChars[(n % 10) + 1]>>

\* int(s) of a non-empty sequence of digit characters.
RECURSIVE ParseInt(_)
ParseInt(s) == IF Len(s) = 1 THEN DigitValue(s[1])
               ELSE 10 * ParseInt(SubSeq(s, 1, Len(s) - 1)) + DigitValue(s[Len(s)])

\* The literal parts of _EVENT_PATTERN:
\*   C\(year, Treatment\(reference=   \)\)\[   \]:treated
PatternHead ==
    <<"C", "(", "y", "e", "a", "r", ",", " ", "T", "r", "e", "a", "t", "m", "e", "n", "t",
      "(", "r", "e", "f", "e", "r", "e", "n", "c", "e", "=">>

PatternMid == <<")", ")", "[">>

PatternTail == <<"]", ":", "t", "r", "e", "a", "t", "e", "d">>

\* The literal lit at position i of s: the position after it, 0 when it is
\* not there (or i = 0, an earlier part having failed).
MatchLit(s, i, lit) ==
    IF i > 0 /\ i + Len(lit) - 1 <= Len(s) /\ SubSeq(s, i, i + Len(lit) - 1) = lit
    THEN i + Len(lit) ELSE 0

\* \d+ at position i of s: the position after the longest run of digits,
\* 0 when there is no digit at i. The literal that follows starts with a
\* non-digit, so the greedy match is the only one.
MatchDigits(s, i) ==
    IF i = 0 \/ i > Len(s) \/ ~IsDigit(s[i]) THEN 0
    ELSE CHOOSE j \in (i + 1)..(Len(s) + 1) :
            /\ \A k \in i..(j - 1) : IsDigit(s[k])
            /\ j <= Len(s) => ~IsDigit(s[j])

\* The positions _EVENT_PATTERN.match(name) goes through: re.match anchors
\* the pattern at the start of name and not at its end.
MatchEnds(name) ==
    LET a == MatchLit(name, 1, PatternHead)
        b == MatchDigits(name, a)
        c == MatchLit(name, b, PatternMid)
        d == MatchDigits(name, c)
        e == MatchLit(name, d, PatternTail)
    IN  [year_from |-> c, year_to |-> d - 1, end |-> e]

\* bool(_EVENT_PATTERN.match(name))
Matches(name) == MatchEnds(name).end > 0

\* int(match.group("year"))
MatchedYear(name) ==
    ParseInt(SubSeq(name, MatchEnds(name).year_from, MatchEnds(name).year_to))

\* A fitted model is the sequence of its parameters, each with its name and
\* its entry in params, bse, pvalues and conf_int(); names are unique.
\* series.get(name, nan), conf.loc[name, ...]: the entry under that name.
Lookup(model, name, field) ==
    LET hits == {i \in 1..Len(model) : model[i].name = name}
    IN  IF hits = {} THEN NaN ELSE Cell(model[CHOOSE i \in hits : TRUE][field])

TableColumns == {"year", "rel_year", "coef", "se", "pvalue", "ci_low", "ci_high"}

\* The dict appended to rows for the parameter at position i.
EventRow(model, i, ref_year) ==
    LET name == model[i].name
        year == MatchedYear(name)
    IN  [k \in TableColumns |->
            CASE k = "year" -> Cell(year)
              [] k = "rel_year" -> Cell(year - ref_year)
              [] k = "coef" -> Cell(model[i].coef)
              [] k = "se" -> Lookup(model, name, "se")
              [] k = "pvalue" -> Lookup(model, name, "pvalue")
              [] k = "ci_low" -> Lookup(model, name, "ci_low")
              [] OTHER -> Lookup(model, name, "ci_high")]

\* rows, after the loop over params.items().
RECURSIVE EventRows(_, _, _)
EventRows(model, n, ref_year) ==
    IF n = 0 THEN <<>>
    ELSE IF Matches(model[n].name)
         THEN Append(EventRows(model, n - 1, ref_year), EventRow(model, n, ref_year))
         ELSE EventRows(model, n - 1, ref_year)

\* ref_row, concatenated to a frame that has a pvalue column: no pvalue.
ReferenceRow(ref_year) ==
    [k \in TableColumns |->
        CASE k = "year" -> Cell(ref_year)
          [] k = "rel_year" -> Cell(0)
          [] k = "coef" -> Cell(0)
          [] OTHER -> NaN]

\* not (df["year"] == ref_year).any()
LacksReferenceYearMutant(rows, ref_year) == TRUE

LacksReferenceYear(rows, ref_year) ==
    ~\E i \in 1..Len(rows) : rows[i]["year"] = Cell(ref_year)

\* The permutations of 1..n.
Orderings(n) == {f \in [1..n -> 1..n] : \A i, j \in 1..n : f[i] = f[j] => i = j}

\* The rows left in the order of the loop.
SortValuesMutant(rows) == {rows}

\* df.sort_values("rel_year").reset_index(drop=True): the default sort is
\* not stable, rows of equal rel_year come in an order of the build's choice.
SortValues(rows) ==
    {[i \in 1..Len(rows) |-> rows[f[i]]] :
        f \in {g \in Orderings(Len(rows)) :
                 \A i \in 1..(Len(rows) - 1) :
                     V(rows[g[i]]["rel_year"]) <= V(rows[g[i + 1]]["rel_year"])}}

\* Series.round(3) of a p-value kept in units of 1e-4, none ending in 5.
Round3(c) == IF IsNaN(c) THEN NaN ELSE Cell(((V(c) + 5) \div 10) * 10)

RoundPValues(rows) ==
    [i \in 1..Len(rows) |->
        [k \in TableColumns |-> IF k = "pvalue" THEN Round3(rows[i][k]) ELSE rows[i][k]]]

\* What build_event_study_table(event_model, ref_year) may end with.
build_event_study_table(model, ref_year) ==
    LET rows == EventRows(model, Len(model), ref_year)
        withRef == IF LacksReferenceYear(rows, ref_year)
                   THEN Append(rows, ReferenceRow(ref_year)) ELSE rows
    IN  IF rows = <<>> THEN {Raised("ValueError")}
        ELSE {Returned([columns |-> TableColumns, rows |-> RoundPValues(sorted)]) :
                 sorted \in SortValues(withRef)}

(* -------------------------- the event study ---------------------------- *)

MaxParams == 3

\* The coefficients of the parameters.
Coefs == {0, 1}

\* "C(year, Treatment(reference=<ref>))[<year>]:treated"
InteractionName(ref, year) ==
    PatternHead \o Digits(ref) \o PatternMid \o Digits(year) \o PatternTail

\* The parameter names of the models: interaction terms, one of them with
\* another reference, terms that continue an interaction term or end in one,
\* a year effect and the intercept.
ParamNames ==
    {InteractionName(DefaultRefYear, y) :
        y \in {DefaultRefYear, DefaultRefYear + 1, DefaultRefYear + 2}}
    \cup {InteractionName(DefaultRefYear - 1, DefaultRefYear + 1),
          InteractionName(DefaultRefYear, DefaultRefYear + 1) \o <<"_", "a", "l", "t">>,
          <<"x", ":">> \o InteractionName(DefaultRefYear, DefaultRefYear + 1),
          PatternHead \o Digits(DefaultRefYear) \o <<")", ")", "[", "T", ".">>
             \o Digits(DefaultRefYear + 1) \o <<"]">>,
          <<"I", "n", "t", "e", "r", "c", "e", "p", "t">>}

RefYears == {DefaultRefYear, DefaultRefYear + 1}

\* The parameter at position i: its standard error, p-value (in 1e-4) and
\* confidence bounds differ from those of every other position.
Param(name, coef, i) ==
    [name |-> name, coef |-> coef, se |-> i, pvalue |-> 10 * i + 2,
     ci_low |-> coef - 2 * i, ci_high |-> coef + 2 * i]

InitEvent ==
    /\ pc = "event_input"
    /\ panel = NoFrame
    /\ df = NoFrame
    /\ event_model = <<>>
    /\ args = NoArgs
    /\ ret = NoRet

\* One more parameter of the fitted model.
AddParam(name, coef) ==
    /\ pc = "event_input"
    /\ Len(event_model) < MaxParams
    /\ \A i \in 1..Len(event_model) : event_model[i].name # name
    /\ event_model' = Append(event_model, Param(name, coef, Len(event_model) + 1))
    /\ UNCHANGED <<pc, panel, df, args, ret>>

BuildEventStudyTable(ref_year) ==
    /\ pc = "event_input"
    /\ args' = [fn |-> "build_event_study_table", ref_year |-> ref_year]
    /\ ret' \in build_event_study_table(event_model, ref_year)
    /\ pc' = "event_done"
    /\ UNCHANGED <<panel, df, event_model>>

NextEvent ==
    \/ \E name \in ParamNames, coef \in Coefs : AddParam(name, coef)
    \/ \E ref_year \in RefYears : BuildEventStudyTable(ref_year)

SpecEvent == InitEvent /\ [][NextEvent]_vars

(* --------------------- claims on the event study ----------------------- *)

TableReturned == pc = "event_done" /\ ret.raised = "none"

\* The whole name is C(year, Treatment(reference=<digits>))[YYYY]:treated.
IsInteractionTerm(name) == MatchEnds(name).end = Len(name) + 1

InteractionTerms == {i \in 1..Len(event_model) : IsInteractionTerm(event_model[i].name)}

\* The rows of the returned table that carry an estimate.
EstimatedRows == {j \in 1..Len(ret.value.rows) : ~IsNaN(ret.value.rows[j]["se"])}

\* Row j of the returned table is the row of the parameter at position i.
RowOfParam(j, i) ==
    LET row == ret.value.rows[j]
        year == MatchedYear(event_model[i].name)
    IN  /\ row["year"] = Cell(year)
        /\ row["rel_year"] = Cell(year - args.ref_year)
        /\ row["coef"] = Cell(event_model[i].coef)
        /\ row["se"] = Cell(event_model[i].se)
        /\ row["ci_low"] = Cell(event_model[i].ci_low)
        /\ row["ci_high"] = Cell(event_model[i].ci_high)

\* C4: the estimated rows of the table are, one for one, the parameters
\* whose name is of the form C(year, Treatment(reference=<digits>))[YYYY]:treated,
\* each with its year, rel_year = year - ref_year, coef, se and bounds; a
\* parameter with any other name contributes no row.
C4_RowsAreTheInteractionTerms ==
    TableReturned =>
        /\ Cardinality(EstimatedRows) = Cardinality(InteractionTerms)
        /\ \A i \in InteractionTerms : \E j \in EstimatedRows : RowOfParam(j, i)
        /\ \A j \in EstimatedRows : \E i \in InteractionTerms : RowOfParam(j, i)

\* The rows of the returned table whose year is the reference year.
ReferenceRows == {j \in 1..Len(ret.value.rows) : ret.value.rows[j]["year"] = Cell(args.ref_year)}

\* The parameters the table builder selects whose year is the reference year.
SelectedOfRefYear ==
    {i \in 1..Len(event_model) :
        Matches(event_model[i].name) /\ MatchedYear(event_model[i].name) = args.ref_year}

\* C5 as stated: every returned table has exactly one row of the reference
\* year, and that row has rel_year = 0 and coef = 0.0.
C5_OneZeroReferenceRow ==
    TableReturned =>
        /\ Cardinality(ReferenceRows) = 1
        /\ \A j \in ReferenceRows :
              ret.value.rows[j]["rel_year"] = Cell(0) /\ ret.value.rows[j]["coef"] = Cell(0)

\* C5, amended: every returned table has a row of the reference year and
\* each such row has rel_year = 0; when no selected parameter carries the
\* reference year there is exactly one, the added row with coef = 0.0 and
\* no estimate; otherwise no row is added and the rows of that year are
\* the estimates of those parameters.
C5_ReferenceRows ==
    TableReturned =>
        /\ ReferenceRows # {}
        /\ \A j \in ReferenceRows : ret.value.rows[j]["rel_year"] = Cell(0)
        /\ IF SelectedOfRefYear = {}
           THEN /\ Cardinality(ReferenceRows) = 1
                /\ \A j \in ReferenceRows :
                      /\ ret.value.rows[j]["coef"] = Cell(0)
                      /\ IsNaN(ret.value.rows[j]["se"])
                      /\ IsNaN(ret.value.rows[j]["ci_low"])
                      /\ IsNaN(ret.value.rows[j]["ci_high"])
           ELSE /\ Cardinality(ReferenceRows) = Cardinality(SelectedOfRefYear)
                /\ \A j \in ReferenceRows : \E i \in SelectedOfRefYear : RowOfParam(j, i)

\* A table with estimates before and after the reference year and the
\* added zero row between them.
C5_Witness ==
    /\ TableReturned
    /\ SelectedOfRefYear = {}
    /\ Len(ret.value.rows) = 3
    /\ \E j \in EstimatedRows : V(ret.value.rows[j]["rel_year"]) < 0
    /\ \E j \in EstimatedRows : V(ret.value.rows[j]["rel_year"]) > 0
    /\ \E j \in ReferenceRows : IsNaN(ret.value.rows[j]["se"])

\* C6: the call raises ValueError and returns no table when no parameter is
\* an event-study interaction term; a returned table is not empty and holds
\* more than the added reference row.
C6_RaisesWithoutInteractionTerm ==
    pc = "event_done" =>
        /\ InteractionTerms = {} => (ret.raised = "ValueError" /\ ret.value = <<>>)
        /\ ret.raised = "none" => (ret.value.rows # <<>> /\ EstimatedRows # {})

\* rel_year of row j of the returned table.
RelYear(j) == V(ret.value.rows[j]["rel_year"])

\* The model with the parameters at positions i and i + 1 exchanged.
Exchanged(i) ==
    [k \in 1..Len(event_model) |->
        IF k = i THEN event_model[i + 1]
        ELSE IF k = i + 1 THEN event_model[i] ELSE event_model[k]]

\* C11: the returned table is ordered by rel_year, non-decreasing from the
\* first row to the last; every row of the reference year stands at
\* rel_year = 0, after the rows of earlier years and before the rows of
\* later years; and the table is one the same parameters give with any two
\* neighbours exchanged, hence in any other order.
C11_OrderedByRelYear ==
    TableReturned =>
        /\ \A j \in 1..(Len(ret.value.rows) - 1) : RelYear(j) <= RelYear(j + 1)
        /\ \A j \in ReferenceRows :
              /\ RelYear(j) = 0
              /\ \A k \in 1..Len(ret.value.rows) :
                    /\ RelYear(k) < 0 => k < j
                    /\ RelYear(k) > 0 => k > j
        /\ \A i \in 1..(Len(event_model) - 1) :
              ret \in build_event_study_table(Exchanged(i), args.ref_year)

\* A model that lists a later year before an earlier one, and its table:
\* the earlier year first, the added reference row second, the later last.
C11_Witness ==
    /\ TableReturned
    /\ \E i, k \in 1..Len(event_model) :
          /\ i < k
          /\ Matches(event_model[i].name) /\ Matches(event_model[k].name)
          /\ MatchedYear(event_model[i].name) > args.ref_year
          /\ MatchedYear(event_model[k].name) < args.ref_year
    /\ Len(ret.value.rows) = 3
    /\ RelYear(1) < 0 /\ RelYear(3) > 0
    /\ ret.value.rows[2]["year"] = Cell(args.ref_year)
    /\ IsNaN(ret.value.rows[2]["se"])

(* -------------------------- run_threshold_grid ------------------------- *)

\* pd.DataFrame(rows) of a list of dicts: the columns are the keys found
\* in the dicts, none when the list is empty.
DataFrameOfRecords(rows) ==
    [columns |-> UNION {DOMAIN rows[i] : i \in 1..Len(rows)}, rows |-> rows]

GridColumns == {"name", "threshold", "coef_did_alt", "se_did_alt", "pvalue_did_alt"}

\* The dict appended for the entry (name, thr) of thresholds.
GridRow(p, name, thr) ==
    LET model == run_did_with_threshold(p, thr)
    IN  [k \in GridColumns |->
            CASE k = "name" -> Cell(name)
              [] k = "threshold" -> Cell(thr)
              [] k = "coef_did_alt" -> Cell(Estimate(model, "params", "did_alt"))
              [] k = "se_did_alt" -> Cell(Estimate(model, "bse", "did_alt"))
              [] OTHER -> Cell(Estimate(model, "pvalues", "did_alt"))]

\* thresholds is a dict, kept as the sequence of its items in their
\* order, the keys unique.
run_threshold_grid(p, thresholds) ==
    DataFrameOfRecords([i \in 1..Len(thresholds) |->
                           GridRow(p, thresholds[i][1], thresholds[i][2])])

(* ------------------------- the threshold grid -------------------------- *)

MaxGrid == 2

GridNames == {"p40", "p50", "p60"}

FrameOfRows(rows) == [columns |-> RawColumns, rows |-> rows]

\* The panels of the grid runs, none empty: both regions with a 2016
\* intensity, one region without a row before 2016, and a single row.
GridPanels ==
    {FrameOfRows(<<RawRow("A", PostYear - 1, 0), RawRow("A", PostYear, 1),
                   RawRow("B", PostYear - 1, 0), RawRow("B", PostYear, 0)>>),
     FrameOfRows(<<RawRow("A", PostYear - 1, 1), RawRow("A", PostYear, 0),
                   RawRow("B", PostYear, 0), RawRow("B", PostYear + 1, 1)>>),
     FrameOfRows(<<RawRow("A", PostYear, 0)>>)}

InitGrid ==
    /\ pc = "input"
    /\ panel \in GridPanels
    /\ df = NoFrame
    /\ event_model = NoModel
    /\ args = NoArgs
    /\ ret = NoRet

\* The thresholds mapping put together so far.
GridSoFar == IF args.fn = "run_threshold_grid" THEN args.thresholds ELSE <<>>

\* thresholds[name] = thr, for a new label.
GridEntry(name, thr) ==
    /\ pc = "prepared"
    /\ Len(GridSoFar) < MaxGrid
    /\ \A i \in 1..Len(GridSoFar) : GridSoFar[i][1] # name
    /\ args' = [fn |-> "run_threshold_grid", thresholds |-> Append(GridSoFar, <<name, thr>>)]
    /\ UNCHANGED <<pc, panel, df, event_model, ret>>

RunThresholdGrid ==
    /\ pc = "prepared"
    /\ args' = [fn |-> "run_threshold_grid", thresholds |-> GridSoFar]
    /\ ret' = Returned(run_threshold_grid(df, GridSoFar))
    /\ pc' = "grid_done"
    /\ UNCHANGED <<panel, df, event_model>>

NextGrid ==
    \/ \E c \in NaNCastOutcomes : AddTreatmentVariables(c)
    \/ \E name \in GridNames, thr \in Thresholds : GridEntry(name, thr)
    \/ RunThresholdGrid

SpecGrid == InitGrid /\ [][NextGrid]_vars

(* -------------------- claims on the threshold grid --------------------- *)

\* C7: run_threshold_grid returns one row per entry of thresholds, in the
\* mapping's order, with the entry's label and value and the did_alt
\* estimates of the model fitted with that threshold, and the table has the
\* columns name, threshold, coef_did_alt, se_did_alt, pvalue_did_alt for
\* every mapping, the empty one included.
C7_OneRowPerThreshold ==
    pc = "grid_done" =>
        LET table == ret.value
            m == args.thresholds
        IN  /\ table.columns = {"name", "threshold", "coef_did_alt", "se_did_alt",
                                "pvalue_did_alt"}
            /\ Len(table.rows) = Len(m)
            /\ \A i \in 1..Len(m) :
                  LET model == run_did_with_threshold(df, m[i][2])
                  IN  /\ table.rows[i]["name"] = Cell(m[i][1])
                      /\ table.rows[i]["threshold"] = Cell(m[i][2])
                      /\ table.rows[i]["coef_did_alt"] = Cell(Estimate(model, "params", "did_alt"))
                      /\ table.rows[i]["se_did_alt"] = Cell(Estimate(model, "bse", "did_alt"))
                      /\ table.rows[i]["pvalue_did_alt"] = Cell(Estimate(model, "pvalues", "did_alt"))

(* ------------------------ the panel preparation ------------------------ *)

MaxFullRows == 2

\* The years, case counts and populations of the rows of these panels.
FullYears == {PostYear - 1, PostYear}

CaseCounts == {0, 1}

Populations == {1, 2}

BaseColumns == {"region", "year", "foreigners_total", "total_cases", "population_total"}

\* The columns of the panels handed to the preparation: with or without a
\* crime rate, with or without a did column from an earlier preparation.
FullColumnSets == {BaseColumns \cup extra : extra \in SUBSET {"crime_rate_per_100k", "did"}}

\* A row of a panel with the columns cols; a crime rate that comes with the
\* panel is LoadedRate, a did that comes with it is 1.
FullRow(cols, r, y, f, cases, population) ==
    [k \in cols |->
        CASE k = "region" -> Cell(r)
          [] k = "year" -> Cell(y)
          [] k = "foreigners_total" -> Cell(f)
          [] k = "total_cases" -> Cell(cases)
          [] k = "population_total" -> Cell(population)
          [] k = "crime_rate_per_100k" -> LoadedRate
          [] OTHER -> Cell(1)]

InitFull ==
    /\ pc = "input"
    /\ panel \in {EmptyFrame(cols) : cols \in FullColumnSets}
    /\ df = NoFrame
    /\ event_model = NoModel
    /\ args = NoArgs
    /\ ret = NoRet

LoadFullRow(r, y, f, cases, population) ==
    /\ pc = "input"
    /\ NRows(panel) < MaxFullRows
    /\ ~HasKey(panel, r, y)
    /\ panel' = [panel EXCEPT
                    !.rows = Append(@, FullRow(panel.columns, r, y, f, cases, population))]
    /\ UNCHANGED <<pc, df, event_model, args, ret>>

AddCrimeRateIfMissing ==
    /\ pc = "input"
    /\ LET r == add_crime_rate_if_missing(<<panel>>, 1)
       IN  panel' = r.heap[1] /\ df' = r.heap[r.obj]
    /\ args' = [fn |-> "add_crime_rate_if_missing", panel |-> panel]
    /\ pc' = "prepared"
    /\ UNCHANGED <<event_model, ret>>

PrepareAnalysisPanel(nanCast) ==
    /\ pc = "input"
    /\ LET r == prepare_analysis_panel(<<panel>>, 1, nanCast)
       IN  /\ panel' = r.heap[1]
           /\ IF r.raised = "none"
              THEN df' = r.heap[r.obj] /\ pc' = "prepared" /\ ret' = ret
              ELSE df' = df /\ pc' = "failed" /\ ret' = Raised(r.raised)
    /\ args' = [fn |-> "prepare_analysis_panel", panel |-> panel]
    /\ UNCHANGED event_model

NextFull ==
    \/ \E r \in Regions, y \in FullYears, f \in ForeignersTotals,
          cases \in CaseCounts, population \in Populations :
            LoadFullRow(r, y, f, cases, population)
    \/ AddCrimeRateIfMissing
    \/ \E c \in NaNCastOutcomes : AddTreatmentVariables(c)
    \/ \E c \in NaNCastOutcomes : PrepareAnalysisPanel(c)

SpecFull == InitFull /\ [][NextFull]_vars

(* ------------------- claims on the panel preparation ------------------- *)

\* The columns add_treatment_variables computes.
DesignColumns == {"treatment_intensity", "treated", "post", "did"}

\* The result has the rows of the input, in their order, with the input's
\* values in the columns cols.
SameRowsIn(cols) ==
    /\ NRows(df) = NRows(args.panel)
    /\ \A i \in Index(df) : \A c \in cols : c \in df.columns /\ df.rows[i][c] = args.panel.rows[i][c]

\* The crime rate of the result: the input's when it has one, otherwise
\* total_cases / population_total * 100000 where the function adds it.
CrimeRateKept ==
    IF "crime_rate_per_100k" \in args.panel.columns
    THEN \A i \in Index(df) :
            df.rows[i]["crime_rate_per_100k"] = args.panel.rows[i]["crime_rate_per_100k"]
    ELSE IF args.fn = "add_treatment_variables"
         THEN "crime_rate_per_100k" \notin df.columns
         ELSE \A i \in Index(df) :
                 df.rows[i]["crime_rate_per_100k"] =
                     <<V(args.panel.rows[i]["total_cases"]) * 100000,
                       V(args.panel.rows[i]["population_total"])>>

\* C9 as stated: each of the three functions leaves its input unchanged and
\* returns the same rows in the same order with every input column's values
\* preserved, a crime rate present in the input among them.
C9_EveryInputColumnPreserved ==
    pc = "prepared" =>
        /\ panel = args.panel
        /\ SameRowsIn(args.panel.columns)
        /\ CrimeRateKept

\* C9, amended: the input is left unchanged; the result has the same rows
\* in the same order with the values of every input column preserved except
\* treatment_intensity, treated, post and did, which add_treatment_variables
\* (and prepare_analysis_panel through it) computes anew, replacing a column
\* of that name; a crime rate present in the input is kept as it is. A call
\* that ends with an exception (AttributeError, on a panel with no row of
\* year 2016) returns nothing and leaves the input unchanged too.
C9_InputColumnsPreserved ==
    /\ pc = "failed" =>
          /\ panel = args.panel /\ df = NoFrame /\ ret = Raised("AttributeError")
          /\ args.fn # "add_crime_rate_if_missing"
          /\ RowsOfYear(args.panel, PostYear) = {}
    /\ pc = "prepared" =>
        /\ args.fn # "add_crime_rate_if_missing" => RowsOfYear(args.panel, PostYear) # {}
        /\ panel = args.panel
        /\ SameRowsIn(IF args.fn = "add_crime_rate_if_missing" THEN args.panel.columns
                      ELSE args.panel.columns \ DesignColumns)
        /\ CrimeRateKept
        /\ args.fn # "add_crime_rate_if_missing" =>
              \A i \in Index(df) :
                  df.rows[i]["did"] = Cell(V(df.rows[i]["treated"]) * V(df.rows[i]["post"]))

\* prepare_analysis_panel on a two-row panel that came with a crime rate
\* and a did column, the did of its first row replaced.
C9_Witness ==
    /\ pc = "prepared"
    /\ args.fn = "prepare_analysis_panel"
    /\ {"crime_rate_per_100k", "did"} \subseteq args.panel.columns
    /\ NRows(df) = 2
    /\ df.rows[1]["did"] # args.panel.rows[1]["did"]
    /\ df.rows[2]["crime_rate_per_100k"] = LoadedRate

(* ---------------------- compute_parallel_trends_data ------------------- *)

\* A float cell as the fraction <<n, d>>.
AsRatio(c) == IF Len(c) = 2 THEN c ELSE <<c[1], 1>>

\* The sum of the values of column c on the rows at positions I, as an
\* unreduced fraction; none of them is NaN.
RECURSIVE SumRatio(_, _, _)
SumRatio(frame, I, c) ==
    IF I = {} THEN <<0, 1>>
    ELSE LET i == CHOOSE j \in I : TRUE
             a == AsRatio(frame.rows[i][c])
             b == SumRatio(frame, I \ {i}, c)
         IN  <<a[1] * b[2] + b[1] * a[2], a[2] * b[2]>>

\* .mean() of column c on the rows at positions I: NaN values are skipped,
\* and the mean of none is NaN.
MeanOf(frame, I, c) ==
    LET J == {i \in I : ~IsNaN(frame.rows[i][c])}
        sum == SumRatio(frame, J, c)
    IN  IF J = {} THEN NaN ELSE <<sum[1], sum[2] * Cardinality(J)>>

\* The (year, treated) groups: rows with a NaN key belong to none.
GroupKeys(frame) ==
    {<<V(frame.rows[i]["year"]), V(frame.rows[i]["treated"])>> :
        i \in {j \in Index(frame) :
                 ~IsNaN(frame.rows[j]["year"]) /\ ~IsNaN(frame.rows[j]["treated"])}}

KeyBefore(a, b) == a[1] < b[1] \/ (a[1] = b[1] /\ a[2] < b[2])

\* groupby sorts the groups by their keys.
SortedKeys(keys) ==
    CHOOSE s \in [1..Cardinality(keys) -> keys] :
        \A i, j \in 1..Cardinality(keys) : i < j => KeyBefore(s[i], s[j])

\* panel.groupby(["year", "treated"], as_index=False)[outcome].mean()
\*   .rename(columns={outcome: "mean"})
GroupedMeans(frame, outcome) ==
    LET keys == SortedKeys(GroupKeys(frame))
    IN  [columns |-> {"year", "treated", "mean"},
         rows |-> [g \in 1..Len(keys) |->
                     [k \in {"year", "treated", "mean"} |->
                        CASE k = "year" -> Cell(keys[g][1])
                          [] k = "treated" -> Cell(keys[g][2])
                          [] OTHER ->
                             MeanOf(frame,
                                    {i \in Index(frame) :
                                        /\ frame.rows[i]["year"] = Cell(keys[g][1])
                                        /\ frame.rows[i]["treated"] = Cell(keys[g][2])},
                                    outcome)]]]

\* required - set(panel.columns)
MissingColumns(required, frame) == required \ frame.columns

compute_parallel_trends_data(frame, outcome) ==
    IF MissingColumns({"year", "treated", outcome}, frame) # {}
    THEN Raised("ValueError")
    ELSE Returned(GroupedMeans(frame, outcome))

(* ---------------- compute_treatment_intensity_distribution ------------- *)

\* panel.loc[panel["year"] == year, cols].copy().dropna(subset=[intensity_col])
YearSubset(frame, year, intensity_col) ==
    LET cols == {"year", intensity_col} \cup ({"region", "treated"} \cap frame.columns)
        kept == SelectSeq(frame.rows,
                          LAMBDA row : row["year"] = Cell(year) /\ ~IsNaN(row[intensity_col]))
    IN  [columns |-> cols,
         rows |-> [i \in 1..Len(kept) |-> [k \in cols |-> kept[i][k]]]]

\* The second result is float(median), kept as the fraction <<2 * median, 2>>.
compute_treatment_intensity_distribution(frame, year, intensity_col) ==
    IF MissingColumns({"year", intensity_col}, frame) # {} THEN Raised("ValueError")
    ELSE LET df_year == YearSubset(frame, year, intensity_col)
         IN  IF df_year.rows = <<>> THEN Raised("ValueError")
             ELSE Returned([df_year |-> df_year,
                            threshold |-> <<Median2(Values(df_year, Index(df_year),
                                                           intensity_col)), 2>>])

(* --------------------------- the plot data ----------------------------- *)

MaxPlotRows == 2

PlotColumns == {"year", "treated", "treatment_intensity", "crime_rate_per_100k", "region"}

PlotYears == {PostYear - 1, PostYear}

PlotIntensities == {NaN, Cell(0), Cell(1)}

PlotRates == {LoadedRate, <<1, 2>>}

\* The outcome and intensity columns asked for; no panel here has a
\* foreigners_total column.
Outcomes == {"crime_rate_per_100k", "treatment_intensity"}

IntensityColumns == {"treatment_intensity", "foreigners_total"}

PlotRow(cols, y, t, ti, rate) ==
    [k \in cols |->
        CASE k = "year" -> Cell(y)
          [] k = "treated" -> Cell(t)
          [] k = "treatment_intensity" -> ti
          [] k = "crime_rate_per_100k" -> rate
          [] OTHER -> Cell("A")]

InitPlots ==
    /\ pc = "plot_input"
    /\ panel \in {EmptyFrame(cols) : cols \in SUBSET PlotColumns}
    /\ df = NoFrame
    /\ event_model = NoModel
    /\ args = NoArgs
    /\ ret = NoRet

LoadPlotRow(y, t, ti, rate) ==
    /\ pc = "plot_input"
    /\ NRows(panel) < MaxPlotRows
    /\ panel' = [panel EXCEPT !.rows = Append(@, PlotRow(panel.columns, y, t, ti, rate))]
    /\ UNCHANGED <<pc, df, event_model, args, ret>>

ComputeParallelTrendsData(outcome) ==
    /\ pc = "plot_input"
    /\ args' = [fn |-> "compute_parallel_trends_data", outcome |-> outcome]
    /\ ret' = compute_parallel_trends_data(panel, outcome)
    /\ pc' = "plot_done"
    /\ UNCHANGED <<panel, df, event_model>>

ComputeTreatmentIntensityDistribution(year, intensity_col) ==
    /\ pc = "plot_input"
    /\ args' = [fn |-> "compute_treatment_intensity_distribution",
                year |-> year, intensity_col |-> intensity_col]
    /\ ret' = compute_treatment_intensity_distribution(panel, year, intensity_col)
    /\ pc' = "plot_done"
    /\ UNCHANGED <<panel, df, event_model>>

NextPlots ==
    \/ \E y \in PlotYears, t \in {0, 1}, ti \in PlotIntensities, rate \in PlotRates :
          LoadPlotRow(y, t, ti, rate)
    \/ \E outcome \in Outcomes : ComputeParallelTrendsData(outcome)
    \/ \E year \in PlotYears, col \in IntensityColumns :
          ComputeTreatmentIntensityDistribution(year, col)

SpecPlots == InitPlots /\ [][NextPlots]_vars

(* ----------------------- claims on the plot data ----------------------- *)

\* The positions of the rows of the requested year whose intensity is not
\* missing.
RequestedRows ==
    {i \in Index(panel) :
        /\ panel.rows[i]["year"] = Cell(args.year)
        /\ panel.rows[i][args.intensity_col] # NaN}

\* m2 is twice the median of the intensities on the rows I: the rows in
\* ascending order of intensity, the middle one or the two middle ones.
IsTwiceMedian(m2, I) ==
    LET n == Cardinality(I)
    IN  \E s \in [1..n -> I] :
            /\ \A i, j \in 1..n : i < j => s[i] # s[j]
            /\ \A i \in 1..(n - 1) :
                  V(panel.rows[s[i]][args.intensity_col])
                      <= V(panel.rows[s[i + 1]][args.intensity_col])
            /\ m2 = V(panel.rows[s[(n + 1) \div 2]][args.intensity_col])
                    + V(panel.rows[s[(n \div 2) + 1]][args.intensity_col])

\* C10: compute_parallel_trends_data raises ValueError, with no result,
\* when the panel lacks year, treated or the outcome column;
\* compute_treatment_intensity_distribution raises ValueError when the panel
\* lacks year or the intensity column or no row of the requested year has
\* an intensity, and otherwise returns the median of the intensities of
\* that year as the threshold.
C10_ChecksAndMedian ==
    pc = "plot_done" =>
        IF args.fn = "compute_parallel_trends_data"
        THEN (\E c \in {"year", "treated", args.outcome} : c \notin panel.columns)
                => (ret.raised = "ValueError" /\ ret.value = <<>>)
        ELSE IF \E c \in {"year", args.intensity_col} : c \notin panel.columns
             THEN ret.raised = "ValueError" /\ ret.value = <<>>
             ELSE IF RequestedRows = {}
                  THEN ret.raised = "ValueError" /\ ret.value = <<>>
                  ELSE /\ ret.raised = "none"
                       /\ ret.value.threshold[2] = 2
                       /\ IsTwiceMedian(ret.value.threshold[1], RequestedRows)

\* A threshold returned for two intensities of the requested year, 0 and 1,
\* whose median 1/2 is neither of them.
C10_Witness ==
    /\ pc = "plot_done"
    /\ args.fn = "compute_treatment_intensity_distribution"
    /\ ret.raised = "none"
    /\ ret.value.threshold = <<1, 2>>
    /\ Cardinality(RequestedRows) = 2

(* ------------------- claims on the design variables -------------------- *)

Prepared == pc \in {"prepared", "fitted"}

\* Twice the median of the year-2016 treatment_intensity values of df.
PostYearMedian2 ==
    Median2(Values(df, RowsOfYear(df, PostYear), "treatment_intensity"))

\* Row i's region has a year-2016 row whose intensity is strictly above
\* the median of the year-2016 intensities.
AboveMedianRegion(i) ==
    \E j \in RowsOfYear(df, PostYear) :
        /\ df.rows[j]["region"] = df.rows[i]["region"]
        /\ ~IsNaN(df.rows[j]["treatment_intensity"])
        /\ 2 * V(df.rows[j]["treatment_intensity"]) > PostYearMedian2

\* C1: after add_treatment_variables, treated = 1 exactly on the rows whose
\* region has a year-2016 intensity strictly above the median of the
\* year-2016 intensities, and treated = 0 on every other row.
C1_TreatedIffAboveMedian ==
    Prepared =>
        \A i \in Index(df) :
            V(df.rows[i]["treated"]) = (IF AboveMedianRegion(i) THEN 1 ELSE 0)

\* C2: after add_treatment_variables, post = 1 exactly when year >= 2016,
\* did = treated * post, and so did = 1 exactly on the rows of treated
\* regions in 2016 and later.
C2_PostAndDid ==
    Prepared =>
        \A i \in Index(df) :
            LET row == df.rows[i]
            IN  /\ V(row["post"]) = (IF V(row["year"]) >= 2016 THEN 1 ELSE 0)
                /\ V(row["did"]) = V(row["treated"]) * V(row["post"])
                /\ V(row["did"]) \in {0, 1}
                /\ V(row["did"]) = 1 <=> (V(row["treated"]) = 1 /\ V(row["year"]) >= 2016)
                /\ \A j \in Index(df) :
                      df.rows[j]["region"] = row["region"] =>
                          df.rows[j]["treated"] = row["treated"]

\* A prepared panel with a did = 1 row of 2016, a pre-2016 row of a treated
\* region and a control row in 2016 or later.
C2_Witness ==
    /\ pc = "prepared"
    /\ \E i \in Index(df) : V(df.rows[i]["did"]) = 1 /\ V(df.rows[i]["year"]) = 2016
    /\ \E i \in Index(df) : V(df.rows[i]["treated"]) = 1 /\ V(df.rows[i]["year"]) < 2016
    /\ \E i \in Index(df) : V(df.rows[i]["treated"]) = 0 /\ V(df.rows[i]["year"]) >= 2016

\* The rows of row i's region in years before row i's year.
EarlierRows(i) ==
    {j \in Index(df) : /\ df.rows[j]["region"] = df.rows[i]["region"]
                       /\ V(df.rows[j]["year"]) < V(df.rows[i]["year"])}

\* The row of row i's region in its chronologically preceding year.
PrecedingRow(i) ==
    CHOOSE j \in EarlierRows(i) :
        \A k \in EarlierRows(i) : V(df.rows[k]["year"]) <= V(df.rows[j]["year"])

\* C3: whatever the order of the rows, treatment_intensity is the region's
\* foreigners_total minus that of the region's chronologically preceding
\* year, and is missing only on the region's earliest year.
C3_IntensityIsChangeOverTime ==
    Prepared =>
        \A i \in Index(df) :
            df.rows[i]["treatment_intensity"] =
                IF EarlierRows(i) = {} THEN NaN
                ELSE Cell(V(df.rows[i]["foreigners_total"])
                          - V(df.rows[PrecedingRow(i)]["foreigners_total"]))

\* The rows with did_alt = 1 in the frame fitted under threshold t.
DidAltRows(t) ==
    {i \in Index(df) : V(with_threshold_frame(df, t).rows[i]["did_alt"]) = 1}

\* C8: in run_did_with_threshold, treated_alt = 1 exactly when the row's
\* region has a year-2016 intensity strictly greater than the threshold,
\* did_alt = treated_alt * post, and a larger threshold gives a subset of
\* the did_alt = 1 rows.
C8_TreatedAltAndMonotone ==
    pc = "fitted" =>
        LET data == ret.value.data
            t == args.threshold
            on == {i \in Index(data) : V(data.rows[i]["did_alt"]) = 1}
        IN  /\ Index(data) = Index(df)
            /\ \A i \in Index(data) :
                  /\ V(data.rows[i]["treated_alt"]) =
                        (IF \E j \in Index(df) :
                                /\ V(df.rows[j]["year"]) = 2016
                                /\ df.rows[j]["region"] = df.rows[i]["region"]
                                /\ ~IsNaN(df.rows[j]["treatment_intensity"])
                                /\ V(df.rows[j]["treatment_intensity"]) > t
                         THEN 1 ELSE 0)
                  /\ V(data.rows[i]["did_alt"]) =
                        V(data.rows[i]["treated_alt"]) * V(df.rows[i]["post"])
            /\ \A t2 \in Thresholds :
                  /\ t <= t2 => DidAltRows(t2) \subseteq on
                  /\ t2 <= t => on \subseteq DidAltRows(t2)

\* A fit under a threshold that some region's 2016 intensity exceeds and
\* another region's equals, where a larger threshold loses did_alt rows.
C8_Witness ==
    /\ pc = "fitted"
    /\ \E i \in Index(df) : V(ret.value.data.rows[i]["did_alt"]) = 1
    /\ \E i \in Index(df) :
          /\ V(df.rows[i]["year"]) = 2016
          /\ df.rows[i]["treatment_intensity"] = Cell(args.threshold)
          /\ V(ret.value.data.rows[i]["did_alt"]) = 0
    /\ \E t2 \in Thresholds : args.threshold < t2 /\ DidAltRows(t2) # DidAltRows(args.threshold)

\* The regions that have a year-2016 row with an intensity.
RegionsWithIntensity ==
    {df.rows[j]["region"] :
        j \in {k \in RowsOfYear(df, PostYear) : ~IsNaN(df.rows[k]["treatment_intensity"])}}

\* The regions marked treated.
TreatedRegions == {df.rows[i]["region"] : i \in {k \in Index(df) : V(df.rows[k]["treated"]) = 1}}

\* The regions left in the control group.
ControlRegions == {df.rows[i]["region"] : i \in {k \in Index(df) : V(df.rows[k]["treated"]) = 0}}

\* C12: after add_treatment_variables on a panel of integer foreigners_total
\* with one row per (region, year), of the n regions that have a year-2016
\* intensity at most floor(n / 2) are treated, no other region is treated,
\* and when n >= 1 one of the n is in the control group.
C12_NoTreatedMajority ==
    pc = "prepared" =>
        /\ TreatedRegions \subseteq RegionsWithIntensity
        /\ Cardinality(TreatedRegions) <= Cardinality(RegionsWithIntensity) \div 2
        /\ RegionsWithIntensity # {} => ControlRegions \cap RegionsWithIntensity # {}

\* Three regions with a year-2016 intensity, floor(3 / 2) = 1 of them
\* treated and two in the control group.
C12_Witness ==
    /\ pc = "prepared"
    /\ Cardinality(RegionsWithIntensity) = 3
    /\ Cardinality(TreatedRegions) = 1
    /\ Cardinality(ControlRegions) = 2

====
